---- MODULE Spec2Model ----
(***************************************************************************)
(* Model of the Zellous client SDK (src/zellous-sdk.js, class ZellousSDK): *)
(* the connection lifecycle (connect / disconnect / auto-reconnect), the   *)
(* event bus (on / once / off / emit), the message router                  *)
(* (_handleMessage) and the request facade (send, joinRoom, sendMessage).  *)
(*                                                                         *)
(* JavaScript runs every callback to completion, so one action of the      *)
(* model is one synchronous run: a public call up to its first await, a    *)
(* transport callback, a timer callback, or one continuation taken from    *)
(* the microtask queue.  Transport and timer callbacks are tasks: they run *)
(* only when the microtask queue is empty.  Public calls may be issued by  *)
(* the caller at any point between two synchronous runs.                   *)
(***************************************************************************)
EXTENDS Naturals, Sequences, FiniteSets, TLC

VARIABLES
  autoReconnect,   \* this.options.autoReconnect
  ws,              \* this.ws: 0 (null) or the index in socks of the current handle
  socks,           \* every WebSocket this instance created, in creation order
  connected,       \* this.connected
  clientId,        \* this.clientId
  user,            \* this.user
  roomId,          \* this.roomId
  listeners,       \* this.listeners: event name -> sequence of handler entries
  reconnectTimer,  \* this.reconnectTimer: 0 (null) or the id of a timer
  timers,          \* the timers the event loop holds (scheduled, not fired, not cleared)
  micro,           \* the microtask queue: continuations of awaits, FIFO
  blobs,           \* Blob.text() reads in progress (binary frames being decoded)
  connects,        \* the promise of every connect() call, by the handle it created
  promises,        \* the promise of every joinRoom / sendMessage call made so far
  sent,            \* what ws.send() transmitted, in order: <<handle, message>>
  winfo,           \* one entry per wrappedHandler that once() created
  joined,          \* history: roomIds of the room_joined messages routed so far
  frames,          \* history: number of inbound frames the transport delivered
  emits,           \* log of the last run: the emit() calls it made, in order
  invoked,         \* log of the last run: the handler invocations, in order
  last             \* summary of the last run (which operation, its arguments)

vars == <<autoReconnect, ws, socks, connected, clientId, user, roomId, listeners,
          reconnectTimer, timers, micro, blobs, connects, promises, sent, winfo, joined,
          frames, emits, invoked, last>>

(***************************************************************************)
(* Bounds of the model.                                                    *)
(***************************************************************************)
MaxSockets   == 2   \* WebSocket objects created over a run
MaxSends     == 1   \* sendMessage calls over a run
MaxJoins     == 3   \* joinRoom calls over a run
MaxFrames    == 2   \* inbound frames delivered over a run
MaxWrappers  == 4   \* once() registrations over a run
MaxListeners == 4   \* length of one event's handler list under caller registrations
MaxDepth     == 1   \* nesting depth up to which a re-emitting handler re-emits

(***************************************************************************)
(* Values.                                                                 *)
(***************************************************************************)
Null      == "null"                    \* null, for string-valued fields
Undefined == [undefined |-> TRUE]      \* undefined / null, for object-valued places
Tokens    == {Null, "tk"}
Rooms     == {"r1", "r2"}
Contents  == {"hi"}
BusEvents == {"evA"}                   \* a caller-chosen event name
BusData   == {[type |-> "d1"]}

Min(a, b) == IF a < b THEN a ELSE b

\* the summary of a run that the properties below do not ask about
Other == [act |-> "other"]

\* obj.name, undefined when the object has no such property
Field(obj, name) == IF name \in DOMAIN obj THEN obj[name] ELSE Null

(***************************************************************************)
(* Handler functions.  A handler entry is what the listeners array holds:  *)
(* w = 0 for a function registered with on(), w > 0 for the w-th           *)
(* wrappedHandler that once() created; fn is the function the caller (or   *)
(* the SDK) passed.  Caller functions: "ok" returns, "bad" throws, "again" *)
(* emits the event it is handling once more.  SDK functions: the closures  *)
(* of connect() (line 54) and joinRoom() (line 78), p the promise they     *)
(* resolve (for connect, the number of the handle the call created).       *)
(***************************************************************************)
Fn(k, p)     == [k |-> k, p |-> p]
Entry(w, fn) == [w |-> w, fn |-> fn]
UserFns      == {Fn("ok", 0), Fn("bad", 0), Fn("again", 0)}

\* Array.prototype.indexOf, 1-based; 0 stands for -1
indexOf(s, h) ==
  IF \E i \in 1..Len(s) : s[i] = h
  THEN CHOOSE i \in 1..Len(s) : s[i] = h /\ \A j \in 1..(i-1) : s[j] # h
  ELSE 0

\* handlers.splice(index, 1)
splice(s, i) == [j \in 1..(Len(s)-1) |-> IF j < i THEN s[j] ELSE s[j+1]]

\* on(event, handler): the listeners map after the push
on(L, event, h) ==
  IF event \in DOMAIN L
  THEN [L EXCEPT ![event] = Append(@, h)]
  ELSE [e \in (DOMAIN L) \cup {event} |-> IF e = event THEN <<h>> ELSE L[e]]

\* off(event, handler): the listeners map after removing the first occurrence
off(L, event, h) ==
  IF event \notin DOMAIN L THEN L
  ELSE LET index == indexOf(L[event], h)
       IN IF index # 0 THEN [L EXCEPT ![event] = splice(@, index)] ELSE L

\* resolve(data) of promise p: a settled promise stays as it is
resolve(P, p, data) ==
  IF P[p].state = "pending"
  THEN [P EXCEPT ![p].state = "resolved", ![p].value = data]
  ELSE P

\* reject(error) of promise p
reject(P, p, error) ==
  IF P[p].state = "pending"
  THEN [P EXCEPT ![p].state = "rejected", ![p].value = error]
  ELSE P

(***************************************************************************)
(* The part of the object a synchronous run of emit() can change, as a     *)
(* record m: L (listeners), clientId, user, roomId, the promises, winfo,   *)
(* the two logs, and exc: an exception is propagating.                     *)
(***************************************************************************)
Machine ==
  [L |-> listeners, clientId |-> clientId, user |-> user, roomId |-> roomId,
   connects |-> connects, promises |-> promises, winfo |-> winfo,
   emits |-> <<>>, invoked |-> <<>>, exc |-> FALSE]

\* once(event, handler): creates wrappedHandler number w and registers it
once(m, event, fn) ==
  LET w == Len(m.winfo) + 1
  IN [m EXCEPT !.L = on(@, event, Entry(w, fn)),
               !.winfo = Append(@, [ev |-> event, calls |-> 0, seen |-> 0,
                                    unsub |-> FALSE])]

\* history: a top-level emit(event) ran to its end; every one-shot registration
\* on event that existed when it started has seen one more emission
sawEmit(m, event, n) ==
  [m EXCEPT !.winfo = [w \in 1..Len(@) |->
      IF w <= n /\ @[w].ev = event THEN [@[w] EXCEPT !.seen = Min(@ + 1, 2)]
      ELSE @[w]]]

RECURSIVE emit(_, _, _, _, _)
RECURSIVE forEach(_, _, _, _, _, _)
RECURSIVE invoke(_, _, _, _, _)

\* the body of a registered function, called with data
handler(m, h, event, data, depth) ==
  CASE h.fn.k = "ok"    -> m
    [] h.fn.k = "bad"   -> [m EXCEPT !.exc = TRUE]
    [] h.fn.k = "again" ->
         IF depth < MaxDepth THEN emit(m, event, data, "handler", depth + 1) ELSE m
    [] h.fn.k = "connectResolve" ->
         [m EXCEPT !.clientId = Field(data, "clientId"),
                   !.user = Field(data, "user"),
                   !.connects = resolve(@, h.fn.p, data)]
    [] h.fn.k = "joinResolve" ->
         [m EXCEPT !.promises = resolve(@, h.fn.p, data)]

\* wrappedHandler of once(): off(event, wrappedHandler), then handler(...args)
wrappedHandler(m, h, event, data, depth) ==
  LET m1 == [m EXCEPT !.L = off(@, event, h)]
      m2 == [m1 EXCEPT !.winfo[h.w].calls = Min(@ + 1, 2),
                       !.invoked = Append(@, [h |-> h, ev |-> event, depth |-> depth,
                                              present |-> indexOf(m1.L[event], h) # 0])]
  IN handler(m2, h, event, data, depth)

\* handler(data) as emit() calls it: the entry is a wrappedHandler or a plain function
invoke(m, h, event, data, depth) ==
  IF h.w # 0 THEN wrappedHandler(m, h, event, data, depth)
  ELSE handler([m EXCEPT !.invoked = Append(@, [h |-> h, ev |-> event, depth |-> depth,
                                                present |-> TRUE])],
               h, event, data, depth)

\* try { handler(data) } catch (error) { console.error(...) }
tryCatch(m) == [m EXCEPT !.exc = FALSE]

\* handlers.forEach(...): the length is read once, at the start; an index the
\* array no longer has is skipped (k is 1-based, len the length at the start)
forEach(m, event, data, k, len, depth) ==
  IF k > len \/ k > Len(m.L[event]) \/ m.exc THEN m
  ELSE forEach(tryCatch(invoke(m, m.L[event][k], event, data, depth)),
               event, data, k + 1, len, depth)

\* emit(event, data); by says who called it, depth how deep inside handlers
emit(m, event, data, by, depth) ==
  LET m1 == [m EXCEPT !.emits = Append(@, [ev |-> event, data |-> data, by |-> by,
                                           depth |-> depth])]
      m2 == IF event \notin DOMAIN m1.L THEN m1
            ELSE forEach(m1, event, data, 1, Len(m1.L[event]), depth)
  IN IF depth = 0 THEN sawEmit(m2, event, Len(m.winfo)) ELSE m2

\* the object's fields after a synchronous run that ended in machine state m
Commit(m) ==
  /\ listeners' = m.L
  /\ clientId' = m.clientId
  /\ user' = m.user
  /\ roomId' = m.roomId
  /\ connects' = m.connects
  /\ promises' = m.promises
  /\ winfo' = m.winfo
  /\ emits' = m.emits
  /\ invoked' = m.invoked

Init ==
  /\ autoReconnect \in BOOLEAN
  /\ ws = 0
  /\ socks = <<>>
  /\ connected = FALSE
  /\ clientId = Null
  /\ user = Null
  /\ roomId = Null
  /\ listeners = <<>>
  /\ reconnectTimer = 0
  /\ timers = {}
  /\ micro = <<>>
  /\ blobs = <<>>
  /\ connects = <<>>
  /\ promises = <<>>
  /\ sent = <<>>
  /\ winfo = <<>>
  /\ joined = {}
  /\ frames = 0
  /\ emits = <<>>
  /\ invoked = <<>>
  /\ last = Other

(***************************************************************************)
(* The event bus as the caller uses it.                                    *)
(***************************************************************************)
Unchanged_conn == UNCHANGED <<autoReconnect, ws, socks, connected, reconnectTimer,
                              timers, micro, blobs, sent, joined, frames>>

\* sdk.on(event, fn)
UserOn(event, fn) ==
  /\ Len(IF event \in DOMAIN listeners THEN listeners[event] ELSE <<>>) < MaxListeners
  /\ Commit([Machine EXCEPT !.L = on(@, event, Entry(0, fn))])
  /\ last' = Other
  /\ Unchanged_conn

\* sdk.once(event, fn)
UserOnce(event, fn) ==
  /\ Len(winfo) < MaxWrappers
  /\ Len(IF event \in DOMAIN listeners THEN listeners[event] ELSE <<>>) < MaxListeners
  /\ Commit(once(Machine, event, fn))
  /\ last' = Other
  /\ Unchanged_conn

\* sdk.off(event, fn) with a function the caller holds; also the closure on() returned
UserOff(event, fn) ==
  /\ Commit([Machine EXCEPT !.L = off(@, event, Entry(0, fn))])
  /\ last' = Other
  /\ Unchanged_conn

\* the closure once() returned for wrappedHandler number w: off(event, wrappedHandler)
Unsubscribe(w) ==
  /\ w \in 1..Len(winfo)
  /\ ~winfo[w].unsub
  /\ \E i \in 1..Len(listeners[winfo[w].ev]) : listeners[winfo[w].ev][i].w = w
  /\ LET h == CHOOSE e \in {listeners[winfo[w].ev][i] : i \in 1..Len(listeners[winfo[w].ev])} : e.w = w
     IN Commit([Machine EXCEPT !.L = off(@, winfo[w].ev, h), !.winfo[w].unsub = TRUE])
  /\ last' = Other
  /\ Unchanged_conn

\* sdk.emit(event, data) called by the caller
UserEmit(event, data) ==
  /\ LET m == emit(Machine, event, data, "caller", 0)
     IN /\ Commit(m)
        /\ last' = [act |-> "emit", ev |-> event, data |-> data, exc |-> m.exc,
                    snapshot |-> IF event \in DOMAIN listeners THEN listeners[event]
                                 ELSE <<>>]
  /\ Unchanged_conn

(***************************************************************************)
(* The wire codec.  A packed message is a Blob holding the JSON text of    *)
(* the object; an inbound frame carries a string (text frame) or a Blob    *)
(* (binary frame).                                                         *)
(***************************************************************************)
stringify(obj) == [json |-> obj]          \* JSON.stringify(obj)
Blob(text)     == [blob |-> text]         \* new Blob([text])
Garbage        == [garbage |-> TRUE]      \* a text that is not JSON
isBlob(x)      == "blob" \in DOMAIN x     \* x instanceof Blob
parses(text)   == "json" \in DOMAIN text  \* JSON.parse(text) does not throw
parse(text)    == text.json               \* JSON.parse(text)

\* _pack(obj)
_pack(obj) == Blob(stringify(obj))

NotConnected == [error |-> "WebSocket not connected"]
TypeError    == [error |-> "TypeError"]
InvalidState == [error |-> "InvalidStateError"]
Success      == [success |-> TRUE]
TransportError == [error |-> "transport"]

Promise(op, arg) == [op |-> op, arg |-> arg, state |-> "pending", value |-> Undefined]

(***************************************************************************)
(* The message router.                                                     *)
(***************************************************************************)
\* the switch of _handleMessage(msg), entered in machine state m2
derive(m2, msg) ==
     CASE msg.type = "connection_established" ->
            [m2 EXCEPT !.clientId = Field(msg, "clientId"), !.user = Field(msg, "user")]
       [] msg.type = "room_joined" ->
            [m2 EXCEPT !.roomId = Field(msg, "roomId")]
       [] msg.type \in {"text_message", "image_message", "file_shared"} ->
            emit(m2, "chat_message", msg, "router", 0)
       [] msg.type = "user_joined" ->
            emit(m2, "user_presence",
                 [type |-> "joined", user |-> Field(msg, "user"),
                  userId |-> Field(msg, "userId")], "router", 0)
       [] msg.type = "user_left" ->
            emit(m2, "user_presence",
                 [type |-> "left", userId |-> Field(msg, "userId")], "router", 0)
       [] msg.type = "speaker_joined" ->
            emit(m2, "voice_presence",
                 [type |-> "joined", userId |-> Field(msg, "userId"),
                  user |-> Field(msg, "user")], "router", 0)
       [] msg.type = "speaker_left" ->
            emit(m2, "voice_presence",
                 [type |-> "left", userId |-> Field(msg, "userId"),
                  user |-> Field(msg, "user")], "router", 0)
       [] OTHER -> m2

\* a router that emits the catch-all event before the raw one
_handleMessageCatchAllFirst(m, msg) ==
  derive(emit(emit(m, "message", msg, "router", 0), msg.type, msg, "router", 0), msg)

\* _handleMessage(msg)
_handleMessage(m, msg) ==
  derive(emit(emit(m, msg.type, msg, "router", 0), "message", msg, "router", 0), msg)

(***************************************************************************)
(* The connection manager.                                                 *)
(***************************************************************************)
Unchanged_io == UNCHANGED <<micro, blobs, sent, joined, frames>>

\* the url of connect(): token ? `${serverUrl}?token=${token}` : serverUrl
Url(token) == IF token # Null THEN <<"serverUrl", token>> ELSE <<"serverUrl">>

\* the body of connect(token): a new promise, a new WebSocket that becomes this.ws,
\* its four callbacks, and once('connection_established', ...)
connect(token) ==
  /\ Len(socks) < MaxSockets
  /\ LET h == Len(socks) + 1
         m == [Machine EXCEPT !.connects = Append(@, Promise("connect", token))]
     IN /\ socks' = Append(socks, [readyState |-> "CONNECTING", url |-> Url(token),
                                   token |-> token, released |-> FALSE,
                                   closeFired |-> FALSE])
        /\ ws' = h
        /\ Commit(once(m, "connection_established", Fn("connectResolve", h)))

\* sdk.connect(token) called by the caller
Connect(token) ==
  /\ connect(token)
  /\ last' = Other
  /\ UNCHANGED <<autoReconnect, connected, reconnectTimer, timers>>
  /\ Unchanged_io

\* the first sdk.connect() of an instance, without a token
ConnectFirst == socks = <<>> /\ Connect(Null)

\* a transport open handler that also completes the pending connect() call
OnOpenResolves(h) ==
  /\ micro = <<>>
  /\ h \in DOMAIN socks
  /\ socks[h].readyState = "CONNECTING"
  /\ socks' = [socks EXCEPT ![h].readyState = "OPEN"]
  /\ connected' = TRUE
  /\ LET m == emit(Machine, "connected", Undefined, "transport", 0)
     IN Commit([m EXCEPT !.connects = resolve(@, h, Undefined)])
  /\ last' = Other
  /\ UNCHANGED <<autoReconnect, ws, reconnectTimer, timers>>
  /\ Unchanged_io

\* ws.onopen of handle h
OnOpen(h) ==
  /\ micro = <<>>
  /\ h \in DOMAIN socks
  /\ socks[h].readyState = "CONNECTING"
  /\ socks' = [socks EXCEPT ![h].readyState = "OPEN"]
  /\ connected' = TRUE
  /\ Commit(emit(Machine, "connected", Undefined, "transport", 0))
  /\ last' = Other
  /\ UNCHANGED <<autoReconnect, ws, reconnectTimer, timers>>
  /\ Unchanged_io

\* an error handler that itself makes the transition to closed
OnErrorTransitions(h) ==
  /\ micro = <<>>
  /\ h \in DOMAIN socks
  /\ socks[h].readyState # "CLOSED"
  /\ ~socks[h].closeFired
  /\ socks' = [socks EXCEPT ![h].readyState = "CLOSED"]
  /\ connected' = FALSE
  /\ LET m == emit(Machine, "error", TransportError, "transport", 0)
     IN Commit([m EXCEPT !.connects = reject(@, h, TransportError)])
  /\ last' = [act |-> "onerror", h |-> h]
  /\ UNCHANGED <<autoReconnect, ws, reconnectTimer, timers>>
  /\ Unchanged_io

\* ws.onerror of handle h.  The transport fires error when the connection has
\* failed: readyState is CLOSED by then, and the close event is still to come.
OnError(h) ==
  /\ micro = <<>>
  /\ h \in DOMAIN socks
  /\ socks[h].readyState # "CLOSED"
  /\ ~socks[h].closeFired
  /\ socks' = [socks EXCEPT ![h].readyState = "CLOSED"]
  /\ LET m == emit(Machine, "error", TransportError, "transport", 0)
     IN Commit([m EXCEPT !.connects = reject(@, h, TransportError)])
  /\ last' = [act |-> "onerror", h |-> h]
  /\ UNCHANGED <<autoReconnect, ws, connected, reconnectTimer, timers>>
  /\ Unchanged_io

\* a close handler that does not look at the timer handle
ShouldReconnectUnguarded == autoReconnect

\* if (this.options.autoReconnect && !this.reconnectTimer)
ShouldReconnect == autoReconnect /\ reconnectTimer = 0

\* ws.onclose of handle h; token is the one of the connect() call that made h.
\* A timer is identified by the handle whose close scheduled it.
OnClose(h) ==
  /\ micro = <<>>
  /\ h \in DOMAIN socks
  /\ ~socks[h].closeFired
  /\ socks' = [socks EXCEPT ![h].readyState = "CLOSED", ![h].closeFired = TRUE]
  /\ connected' = FALSE
  /\ Commit(emit(Machine, "disconnected", Undefined, "transport", 0))
  /\ IF ShouldReconnect
     THEN /\ reconnectTimer' = h
          /\ timers' = timers \cup {[id |-> h, token |-> socks[h].token]}
     ELSE UNCHANGED <<reconnectTimer, timers>>
  /\ last' = [act |-> "onclose", h |-> h]
  /\ UNCHANGED <<autoReconnect, ws>>
  /\ Unchanged_io

\* a timer callback that reconnects without the token of the closed attempt
TimerFireWithoutToken(t) ==
  /\ micro = <<>>
  /\ t \in timers
  /\ timers' = timers \ {t}
  /\ reconnectTimer' = 0
  /\ connect(Null)
  /\ last' = [act |-> "timer", id |-> t.id]
  /\ UNCHANGED <<autoReconnect, connected>>
  /\ Unchanged_io

\* the callback of setTimeout: this.reconnectTimer = null; this.connect(token)
TimerFire(t) ==
  /\ micro = <<>>
  /\ t \in timers
  /\ timers' = timers \ {t}
  /\ reconnectTimer' = 0
  /\ connect(t.token)
  /\ last' = [act |-> "timer", id |-> t.id]
  /\ UNCHANGED <<autoReconnect, connected>>
  /\ Unchanged_io

\* ws.close(): a handle that is connecting or open starts closing
close(S, h) ==
  IF S[h].readyState \in {"CONNECTING", "OPEN"}
  THEN [S EXCEPT ![h].readyState = "CLOSING"]
  ELSE S

\* sdk.disconnect()
Disconnect ==
  /\ IF reconnectTimer # 0
     THEN /\ timers' = {t \in timers : t.id # reconnectTimer}
          /\ reconnectTimer' = 0
     ELSE UNCHANGED <<reconnectTimer, timers>>
  /\ IF ws # 0
     THEN /\ socks' = [close(socks, ws) EXCEPT ![ws].released = TRUE]
          /\ ws' = 0
     ELSE UNCHANGED <<socks, ws>>
  /\ connected' = FALSE
  /\ Commit(Machine)
  /\ last' = Other
  /\ UNCHANGED autoReconnect
  /\ Unchanged_io

(***************************************************************************)
(* The request facade.                                                     *)
(***************************************************************************)
\* a readiness check that does not look at readyState
CanSendAnyState == ws # 0

\* send(): the readiness check, !(!this.ws || this.ws.readyState !== WebSocket.OPEN)
CanSend == ws # 0 /\ socks[ws].readyState = "OPEN"

Unchanged_life == UNCHANGED <<autoReconnect, ws, socks, connected, reconnectTimer, timers>>

\* send(message) up to `await this._pack(message)`, for the facade call with promise
\* number p: the check throws, or the rest of send() goes to the microtask queue;
\* then says which facade call awaits this send
send(P, p, message, then) ==
  IF ~CanSend
  THEN /\ promises' = reject(P, p, NotConnected)
       /\ micro' = micro
  ELSE /\ promises' = P
       /\ micro' = Append(micro, [k |-> "transmit", p |-> p, packed |-> _pack(message),
                                  then |-> then])

\* sdk.sendMessage(content, type)
SendMessage(content, type) ==
  /\ Len(promises) < MaxSends
  /\ LET p == Len(promises) + 1
         P == Append(promises, Promise("sendMessage", content))
     IN /\ IF type = "text"
           THEN send(P, p, [type |-> "text_message", content |-> content], "sendMessage")
           ELSE promises' = resolve(P, p, Success) /\ micro' = micro
        /\ last' = [act |-> "sendMessage", p |-> p, type |-> type]
  /\ UNCHANGED <<clientId, user, roomId, listeners, connects, winfo, blobs, sent,
                 joined, frames>>
  /\ emits' = <<>>
  /\ invoked' = <<>>
  /\ Unchanged_life

\* sdk.joinRoom(roomId) up to the await inside send()
JoinRoom(r) ==
  /\ Len(promises) < MaxJoins
  /\ LET p == Len(promises) + 1
         P == Append(promises, Promise("joinRoom", r))
     IN /\ send(P, p, [type |-> "join_room", roomId |-> r], "joinRoom")
        /\ last' = Other
  /\ UNCHANGED <<clientId, user, roomId, listeners, connects, winfo, blobs, sent,
                 joined, frames>>
  /\ emits' = <<>>
  /\ invoked' = <<>>
  /\ Unchanged_life

\* the rest of send() after `await this._pack(message)`: this.ws.send(packed).
\* With this.ws null the property access throws; WebSocket.send throws on a
\* connecting handle and drops the data on a closing or closed one.
Transmit(c) ==
  LET fails == ws = 0 \/ socks[ws].readyState = "CONNECTING"
      error == IF ws = 0 THEN TypeError ELSE InvalidState
  IN /\ sent' = IF ~fails /\ socks[ws].readyState = "OPEN"
                THEN Append(sent, <<ws, c.packed>>) ELSE sent
     /\ IF fails
        THEN /\ Commit([Machine EXCEPT !.promises = reject(@, c.p, error)])
             /\ micro' = Tail(micro)
        ELSE IF c.then = "joinRoom"
        THEN /\ Commit(Machine)
             /\ micro' = Append(Tail(micro), [k |-> "afterSend", p |-> c.p])
        ELSE /\ Commit([Machine EXCEPT !.promises = resolve(@, c.p, Success)])
             /\ micro' = Tail(micro)
     /\ last' = Other
     /\ UNCHANGED <<blobs, joined, frames>>
     /\ Unchanged_life

\* joinRoom() after `await this.send(...)`: this.roomId = roomId, and the promise
\* that once('room_joined', ...) resolves
AfterSend(c) ==
  /\ Commit(once([Machine EXCEPT !.roomId = promises[c.p].arg],
                 "room_joined", Fn("joinResolve", c.p)))
  /\ micro' = Tail(micro)
  /\ last' = Other
  /\ UNCHANGED <<blobs, sent, joined, frames>>
  /\ Unchanged_life

\* ws.onmessage after `await this._unpack(event.data)`: this._handleMessage(data)
Route(c) ==
  /\ Commit(_handleMessage(Machine, c.data))
  /\ joined' = IF c.data.type = "room_joined" THEN joined \cup {c.data.roomId} ELSE joined
  /\ micro' = Tail(micro)
  /\ last' = [act |-> "route", msg |-> c.data, n |-> c.n]
  /\ UNCHANGED <<blobs, sent, frames>>
  /\ Unchanged_life

\* one continuation from the head of the microtask queue
MicroStep ==
  /\ micro # <<>>
  /\ LET c == Head(micro)
     IN CASE c.k = "transmit"  -> Transmit(c)
          [] c.k = "afterSend" -> AfterSend(c)
          [] c.k = "route"     -> Route(c)

\* ws.onmessage of handle h with event.data = data, the (frames + 1)-th frame the
\* transport delivers.  _unpack(data): a string is parsed at once, a Blob after
\* `await blob.text()`; when JSON.parse throws, the promise of _unpack rejects,
\* the await in onmessage rethrows and the callback ends there: nothing catches
\* the rejection and nothing is emitted.
OnMessage(h, data) ==
  /\ micro = <<>>
  /\ h \in DOMAIN socks
  /\ socks[h].readyState = "OPEN"
  /\ frames < MaxFrames
  /\ frames' = frames + 1
  /\ IF isBlob(data)
     THEN /\ blobs' = Append(blobs, [n |-> frames + 1, h |-> h, data |-> data])
          /\ micro' = micro
          /\ last' = Other
     ELSE /\ blobs' = blobs
          /\ micro' = IF parses(data)
                      THEN Append(micro, [k |-> "route", data |-> parse(data),
                                          n |-> frames + 1])
                      ELSE micro
          /\ last' = IF parses(data) THEN Other
                     ELSE [act |-> "decodeFailed", h |-> h, n |-> frames + 1]
  /\ Commit(Machine)
  /\ UNCHANGED <<sent, joined>>
  /\ Unchanged_life

\* blob.text() of the i-th read in progress completes: JSON.parse(text)
BlobText(i) ==
  /\ micro = <<>>
  /\ i \in 1..Len(blobs)
  /\ blobs' = splice(blobs, i)
  /\ micro' = IF parses(blobs[i].data.blob)
              THEN Append(micro, [k |-> "route", data |-> parse(blobs[i].data.blob),
                                  n |-> blobs[i].n])
              ELSE micro
  /\ last' = IF parses(blobs[i].data.blob) THEN Other
             ELSE [act |-> "decodeFailed", h |-> blobs[i].h, n |-> blobs[i].n]
  /\ Commit(Machine)
  /\ UNCHANGED <<sent, joined, frames>>
  /\ Unchanged_life

(***************************************************************************)
(* Inbound messages and frames.                                            *)
(***************************************************************************)
Established == [type |-> "connection_established", clientId |-> "c1", user |-> "u1"]
RoomJoined(r) == [type |-> "room_joined", roomId |-> r, currentUsers |-> "u1"]
ChatMsgs ==
  {[type |-> t, id |-> "m1", userId |-> "7", content |-> "hi"] :
     t \in {"text_message", "image_message", "file_shared"}}
PresenceMsgs ==
  {[type |-> t, userId |-> "7", user |-> "al"] :
     t \in {"user_joined", "speaker_joined", "speaker_left"}}
  \cup {[type |-> "user_left", userId |-> "7"]}
OtherMsgs ==
  {[type |-> "message_history", messages |-> "m1"], [type |-> "future_tag", x |-> "y"]}
InMsgs == {Established} \cup {RoomJoined(r) : r \in Rooms} \cup ChatMsgs
          \cup PresenceMsgs \cup OtherMsgs

\* the handshake message, as two servers (or one server at two times) send it
Handshakes ==
  {Established, [type |-> "connection_established", clientId |-> "c2", user |-> "u2"]}

TextFrame(msg) == stringify(msg)
BlobFrame(msg) == Blob(stringify(msg))

(***************************************************************************)
(* Specifications.                                                         *)
(***************************************************************************)
\* the connection lifecycle, with the handshake message
Next ==
  \/ \E t \in Tokens : Connect(t)
  \/ Disconnect
  \/ \E h \in 1..MaxSockets : OnOpen(h)
  \/ \E h \in 1..MaxSockets : OnError(h)
  \/ \E h \in 1..MaxSockets : OnClose(h)
  \/ \E t \in timers : TimerFire(t)
  \/ \E h \in 1..MaxSockets : OnMessage(h, TextFrame(Established))
  \/ MicroStep

Spec == Init /\ [][Next]_vars

\* the connection lifecycle without a token, with sendMessage calls
NextSend ==
  \/ Connect(Null)
  \/ Disconnect
  \/ \E h \in 1..MaxSockets : OnOpen(h)
  \/ \E h \in 1..MaxSockets : OnError(h)
  \/ \E h \in 1..MaxSockets : OnClose(h)
  \/ \E t \in timers : TimerFire(t)
  \/ \E c \in Contents, ty \in {"text", "other"} : SendMessage(c, ty)
  \/ MicroStep

SpecSend == Init /\ [][NextSend]_vars

\* one connection, room joins and the caller's handlers on room_joined
NextRoom ==
  \/ ConnectFirst
  \/ \E h \in 1..MaxSockets : OnOpen(h)
  \/ \E r \in Rooms : JoinRoom(r)
  \/ \E f \in {Fn("ok", 0)} : UserOnce("room_joined", f)
  \/ \E h \in 1..MaxSockets, r \in Rooms : OnMessage(h, TextFrame(RoomJoined(r)))
  \/ MicroStep

InitRoom == Init /\ autoReconnect

SpecRoom == InitRoom /\ [][NextRoom]_vars

\* one connection and every kind of inbound frame
NextRouter ==
  \/ ConnectFirst
  \/ \E h \in 1..MaxSockets : OnOpen(h)
  \/ \E h \in 1..MaxSockets, msg \in InMsgs : OnMessage(h, TextFrame(msg))
  \/ \E h \in 1..MaxSockets, msg \in InMsgs : OnMessage(h, BlobFrame(msg))
  \/ \E h \in 1..MaxSockets, g \in {Garbage, Blob(Garbage)} : OnMessage(h, g)
  \/ \E i \in 1..MaxFrames : BlobText(i)
  \/ UserOn("message", Fn("bad", 0))
  \/ MicroStep

SpecRouter == InitRoom /\ [][NextRouter]_vars

\* the event bus alone
NextBus ==
  \/ \E e \in BusEvents, f \in UserFns : UserOn(e, f)
  \/ \E e \in BusEvents, f \in UserFns : UserOnce(e, f)
  \/ \E e \in BusEvents, f \in UserFns : UserOff(e, f)
  \/ \E w \in 1..MaxWrappers : Unsubscribe(w)
  \/ \E e \in BusEvents, d \in BusData : UserEmit(e, d)

SpecBus == InitRoom /\ [][NextBus]_vars

\* one sdk.connect() by the caller, the attempts the reconnect timer starts,
\* and the server's handshake messages
NextHandshake ==
  \/ ConnectFirst
  \/ \E h \in 1..MaxSockets : OnOpen(h)
  \/ \E h \in 1..MaxSockets : OnError(h)
  \/ \E h \in 1..MaxSockets : OnClose(h)
  \/ \E t \in timers : TimerFire(t)
  \/ \E h \in 1..MaxSockets, msg \in Handshakes : OnMessage(h, TextFrame(msg))
  \/ MicroStep

SpecHandshake == Init /\ [][NextHandshake]_vars

\* auto-reconnect enabled and a caller that connects, with or without a token,
\* and never disconnects
NextReconnect ==
  \/ \E t \in Tokens : Connect(t)
  \/ \E h \in 1..MaxSockets : OnOpen(h)
  \/ \E h \in 1..MaxSockets : OnError(h)
  \/ \E h \in 1..MaxSockets : OnClose(h)
  \/ \E t \in timers : TimerFire(t)

\* with the event loop's scheduling: a timer that is due fires
SpecReconnect ==
  /\ InitRoom
  /\ [][NextReconnect]_vars
  /\ WF_vars(\E t \in timers : TimerFire(t))

(***************************************************************************)
(* Properties.                                                             *)
(***************************************************************************)
\* what the last run logged, as <<event, payload>> pairs: the emit() calls the
\* router or a callback made itself (not those made from inside a handler)
OwnEmits ==
  LET own == SelectSeq(emits, LAMBDA e : e.depth = 0)
  IN [i \in 1..Len(own) |-> <<own[i].ev, own[i].data>>]

\* the entries the last top-level emit() invoked itself, in order
Delivered ==
  LET own == SelectSeq(invoked, LAMBDA r : r.depth = 0)
  IN [i \in 1..Len(own) |-> own[i].h]

\* C4: emit(E, payload) invokes every handler registered for E when emit is
\* called, exactly once each and in registration order, whatever mix of on() and
\* once() registrations E has.  (Fails: a one-shot handler removes itself from
\* the array forEach is walking, and the handler after it is skipped.)
C4_EmitInvokesAllInOrder ==
  last.act = "emit" => Delivered = last.snapshot

\* C5: a handler registered with once(E, h) is invoked at most once, its
\* registration is gone when h starts running, and after two complete emit(E)
\* calls it has been invoked exactly once (unless the caller unsubscribed it).
\* (Fails in the last part: behind three other one-shot registrations h is
\* skipped by both emissions.)
C5_OnceExactlyOnce ==
  /\ \A w \in DOMAIN winfo : winfo[w].calls <= 1
  /\ \A i \in DOMAIN invoked : invoked[i].h.w # 0 => ~invoked[i].present
  /\ \A w \in DOMAIN winfo :
       (winfo[w].seen = 2 /\ ~winfo[w].unsub) => winfo[w].calls = 1

\* C5, the two parts of the claim that do hold of the code: at most one
\* invocation, and the registration removed before h runs
C5_AtMostOnceAndRemovedFirst ==
  /\ \A w \in DOMAIN winfo : winfo[w].calls <= 1
  /\ \A i \in DOMAIN invoked : invoked[i].h.w # 0 => ~invoked[i].present

\* C6: when a handler registered on E throws during emit(E), every handler
\* registered after it on E is still invoked for that emission, and emit()
\* returns normally.  (Fails: when the throwing handler is a one-shot one, the
\* handler after it is skipped, by the defect of C4.)
C6_HandlerIsolation ==
  last.act = "emit" =>
    /\ ~last.exc
    /\ \A i \in DOMAIN last.snapshot : \A j \in DOMAIN last.snapshot :
         (i < j /\ last.snapshot[i].fn.k = "bad"
                /\ \E n \in DOMAIN Delivered : Delivered[n] = last.snapshot[i])
         => \E n \in DOMAIN Delivered : Delivered[n] = last.snapshot[j]

\* the handles that are live: connecting or open
Live == {h \in DOMAIN socks : socks[h].readyState \in {"CONNECTING", "OPEN"}}

\* C1: explicit disconnect wins over auto-reconnect: the close event of a handle
\* that disconnect() released schedules no reconnect timer.  (Fails: onclose does
\* not know that the caller disconnected; it finds autoReconnect set and no
\* timer pending, and schedules one.)
C1_DisconnectWins ==
  [][\A h \in DOMAIN socks :
       (socks[h].released /\ ~socks[h].closeFired /\ socks'[h].closeFired)
       => (timers' \subseteq timers /\ reconnectTimer' = reconnectTimer)]_vars

\* C2: at most one reconnect timer is outstanding in every reachable state, the
\* timer handle names it, and after a close event with auto-reconnect enabled
\* exactly one reconnect attempt is pending.
C2_AtMostOneTimer ==
  /\ Cardinality(timers) <= 1
  /\ \A t \in timers : reconnectTimer = t.id
  /\ (last.act = "onclose" /\ autoReconnect) => Cardinality(timers) = 1

\* C2, the case: a close event arrived while the timer that another handle's
\* close scheduled was still pending
C2_CloseWhileTimerPending ==
  /\ autoReconnect
  /\ last.act = "onclose"
  /\ \E t \in timers : t.id # last.h

\* C3: at most one transport handle of the instance is live (connecting or
\* open) in every reachable state.  (Fails: connect() replaces this.ws without
\* closing the handle it held.)
C3_AtMostOneLiveHandle == Cardinality(Live) <= 1

\* C10: sendMessage(content) with no handle, or with a current handle that is
\* not open, fails with 'WebSocket not connected', transmits nothing, queues
\* nothing, and leaves the connected flag, the handle, the reconnect timer, the
\* identity, roomId and the handler registry as they were.
C10_SendWhileDisconnected ==
  [][(last'.act = "sendMessage" /\ last'.type = "text"
        /\ (ws = 0 \/ socks[ws].readyState # "OPEN"))
     => /\ promises'[last'.p].state = "rejected"
        /\ promises'[last'.p].value = [error |-> "WebSocket not connected"]
        /\ sent' = sent
        /\ micro' = micro
        /\ UNCHANGED <<connected, ws, socks, reconnectTimer, timers, clientId, user,
                       roomId, listeners>>]_vars

\* C10, the case: sendMessage was called while the current handle was still
\* connecting, and was rejected
C10_RejectedWhileConnecting ==
  /\ last.act = "sendMessage"
  /\ last.type = "text"
  /\ ws # 0
  /\ socks[ws].readyState = "CONNECTING"
  /\ promises[last.p].state = "rejected"

\* the derived emission the derivation table prescribes for a message: none, or
\* one <<event, payload>> pair
Derived(msg) ==
  CASE msg.type \in {"text_message", "image_message", "file_shared"} ->
         << <<"chat_message", msg>> >>
    [] msg.type = "user_joined" ->
         << <<"user_presence",
              [type |-> "joined", user |-> msg.user, userId |-> msg.userId]>> >>
    [] msg.type = "user_left" ->
         << <<"user_presence", [type |-> "left", userId |-> msg.userId]>> >>
    [] msg.type = "speaker_joined" ->
         << <<"voice_presence",
              [type |-> "joined", userId |-> msg.userId, user |-> msg.user]>> >>
    [] msg.type = "speaker_left" ->
         << <<"voice_presence",
              [type |-> "left", userId |-> msg.userId, user |-> msg.user]>> >>
    [] OTHER -> << >>

\* C7: routing one decoded inbound message with tag T emits, in this order, the
\* message under T, the message under 'message', and then exactly the derived
\* emission of the table for T (none for any other tag).
C7_RoutingOrder ==
  last.act = "route" =>
    OwnEmits = << <<last.msg.type, last.msg>>, <<"message", last.msg>> >>
               \o Derived(last.msg)

\* C7, the case: a user_joined message was routed and its three emissions were
\* made although a handler of the catch-all event threw
C7_RoutedUserJoined ==
  /\ last.act = "route"
  /\ last.msg.type = "user_joined"
  /\ Len(OwnEmits) = 3
  /\ \E i \in DOMAIN invoked : invoked[i].ev = "message" /\ invoked[i].h.fn.k = "bad"

\* the joinRoom call with promise p has installed its one-shot subscription
\* and the subscription is still registered
Waiting(p) ==
  /\ "room_joined" \in DOMAIN listeners
  /\ \E i \in DOMAIN listeners["room_joined"] :
       listeners["room_joined"][i].fn = Fn("joinResolve", p)

\* C8: joinRoom(r) on an open connection transmits exactly one message
\* {type:'join_room', roomId:r}; when a room_joined message with roomId r is
\* then routed, the pending call resolves with that message and roomId is r.
\* Stated for a run with a single joinRoom call.  (Fails: behind a one-shot
\* handler that the caller registered on room_joined, the subscription of
\* joinRoom is skipped by the emission and the call stays pending, by the defect
\* of C4.)
C8_JoinRoomResolves ==
  (Len(promises) = 1 /\ promises[1].op = "joinRoom") =>
    /\ (Waiting(1) \/ promises[1].state = "resolved")
         => sent = << <<1, Blob([json |-> [type |-> "join_room",
                                             roomId |-> promises[1].arg]])>> >>
    /\ (last.act = "route" /\ last.msg.type = "room_joined"
          /\ last.msg.roomId = promises[1].arg)
         => /\ ~Waiting(1)
            /\ promises[1].state = "resolved" => promises[1].value = last.msg
            /\ roomId = promises[1].arg

\* C9: roomId is unset or is the roomId of a room_joined message that has been
\* routed.  (Fails: joinRoom() sets this.roomId as soon as the request is sent.)
C9_RoomOnlyAfterConfirmation ==
  roomId = Null \/ roomId \in joined

\* C11: a decode failure is contained to its message: the payload is not routed
\* (no raw, catch-all or derived emission) and an 'error' event is emitted for
\* it.  (Fails: nothing catches the error JSON.parse throws inside _unpack; the
\* onmessage callback ends with a rejected promise and emits nothing.)
C11_DecodeFailureContained ==
  last.act = "decodeFailed" =>
    /\ Len(emits) = 1
    /\ emits[1].ev = "error"

\* C11, the parts of the claim that do hold of the code: the run that fails to
\* decode a payload emits nothing, queues nothing for the router, and leaves
\* the connected flag, the handle and every transport handle's state as they
\* were, so that later frames on the handle are delivered and routed as before
C11_DroppedAndLifecycleKept ==
  [][last'.act = "decodeFailed"
     => /\ emits' = <<>>
        /\ micro' = micro
        /\ UNCHANGED <<connected, ws, socks, reconnectTimer, timers, clientId, user,
                       roomId, listeners>>]_vars

\* C12: a connect() call is never resolved by the transport open event alone:
\* a pending call resolves only in the run that routes a connection_established
\* message, with that message as its value, and clientId and user then equal
\* the message's; clientId and user change in no other run, so they are unset
\* until the first connection_established message is routed.
C12_OpenDoesNotCompleteConnect ==
  [][/\ \A h \in DOMAIN connects :
          (connects[h].state = "pending" /\ connects'[h].state = "resolved")
          => /\ last'.act = "route"
             /\ last'.msg.type = "connection_established"
             /\ connects'[h].value = last'.msg
             /\ clientId' = last'.msg.clientId
             /\ user' = last'.msg.user
     /\ (clientId' # clientId \/ user' # user)
          => (last'.act = "route" /\ last'.msg.type = "connection_established")]_vars

\* C12, the case: the handle of a connect() call opened, the call stayed
\* pending, and the routing of the handshake message resolved it
C12_ResolvedByHandshake ==
  /\ last.act = "route"
  /\ last.msg.type = "connection_established"
  /\ \E h \in DOMAIN connects :
       /\ connects[h].state = "resolved"
       /\ connects[h].value = last.msg
       /\ socks[h].readyState = "OPEN"
  /\ connected
  /\ clientId = last.msg.clientId

\* the pending joinRoom calls whose one-shot subscription is installed
WaitingJoins == {p \in DOMAIN promises : promises[p].state = "pending" /\ Waiting(p)}

\* C13: when N joinRoom calls are pending at once and the responses arrive one
\* at a time, the i-th call resolves with the i-th response: the run that
\* routes a room_joined message resolves the earliest of the waiting calls with
\* that message and no other call.  Stated for runs in which only joinRoom has
\* handlers on room_joined.  (Fails for N = 3: the first response resolves the
\* first and the third call, by the defect of C4.)
C13_ConcurrentJoinsResolveInOrder ==
  [][(/\ last'.act = "route"
      /\ last'.msg.type = "room_joined"
      /\ WaitingJoins # {}
      /\ \A i \in DOMAIN listeners["room_joined"] :
           listeners["room_joined"][i].fn.k = "joinResolve")
     => \A p \in WaitingJoins :
          IF \A q \in WaitingJoins : p <= q
          THEN promises'[p].state = "resolved" /\ promises'[p].value = last'.msg
          ELSE promises'[p].state = "pending"]_vars

\* C14: the router processes the payloads of a handle in the order the
\* transport delivered them, text or binary: when a payload is routed, no
\* decodable payload delivered before it is still waiting to be routed.
\* (Fails: a text frame is parsed in the run that delivers it, a binary frame
\* only when blob.text() completes, so a later frame overtakes an earlier
\* binary one.)
C14_InboundOrder ==
  last.act = "route" =>
    /\ \A i \in DOMAIN blobs :
         parses(blobs[i].data.blob) => blobs[i].n > last.n
    /\ \A i \in DOMAIN micro :
         micro[i].k = "route" => micro[i].n > last.n

\* C15: every pending connect() call resolves with the payload of the first
\* connection_established message routed after the call was made: the run that
\* routes such a message resolves every call that was pending, with that
\* message.  (Fails: behind the one-shot registration an earlier attempt left,
\* the registration of the later call is skipped, by the defect of C4.)
C15_HandshakeResolvesEveryPendingConnect ==
  [][(last'.act = "route" /\ last'.msg.type = "connection_established")
     => \A h \in DOMAIN connects :
          connects[h].state = "pending"
          => (connects'[h].state = "resolved" /\ connects'[h].value = last'.msg)]_vars

\* the reconnect timers a run can hold
TimerIds == {[id |-> h, token |-> k] : h \in 1..MaxSockets, k \in Tokens}

\* C16, with the condition of the close handler: when a transport handle closes
\* while autoReconnect is enabled, no reconnect timer is pending and the caller
\* never disconnects, the close handler schedules one timer that carries the
\* token of the attempt whose handle closed; a pending timer eventually fires
\* (while the bound on handles allows a new one); and the run in which it fires
\* clears the timer handle and starts a connect attempt with that token and
\* endpoint, whose handle becomes the current one.
C16_ReconnectWhenNoTimerPending ==
  /\ [][\A h \in DOMAIN socks :
         (autoReconnect /\ reconnectTimer = 0
            /\ ~socks[h].closeFired /\ socks'[h].closeFired)
         => /\ reconnectTimer' = h
            /\ timers' = {[id |-> h, token |-> socks[h].token]}]_vars
  /\ [][\A t \in timers :
         t \notin timers'
         => /\ reconnectTimer' = 0
            /\ Len(socks') = Len(socks) + 1
            /\ socks'[Len(socks')].readyState = "CONNECTING"
            /\ socks'[Len(socks')].token = socks[t.id].token
            /\ socks'[Len(socks')].url = socks[t.id].url
            /\ ws' = Len(socks')]_vars
  /\ \A t \in TimerIds :
       (t \in timers) ~> (t \notin timers \/ Len(socks) = MaxSockets)

\* C16, the case: the handle of connect('tk') closed, its timer fired, and the
\* attempt the timer started carries the token and the url of the closed one
C16_ReconnectedWithToken ==
  /\ last.act = "timer"
  /\ socks[last.id].closeFired
  /\ socks[last.id].token = "tk"
  /\ ws = Len(socks)
  /\ ws > last.id
  /\ socks[ws].token = "tk"
  /\ socks[ws].url = <<"serverUrl", "tk">>
  /\ reconnectTimer = 0

\* C16 as stated, for every close: when a transport handle closes while
\* autoReconnect is enabled and the caller never disconnects, a connect attempt
\* with the token of the attempt whose handle closed is due; stated for the
\* current handle: after its close handler a reconnect timer that carries its
\* token is pending.  (Fails: while the timer an earlier handle's close
\* scheduled is pending, the close handler schedules nothing, and the attempt
\* that follows carries the earlier handle's token.)
C16_CloseSchedulesSameToken ==
  [][\A h \in DOMAIN socks :
       (autoReconnect /\ h = ws /\ ~socks[h].closeFired /\ socks'[h].closeFired)
       => \E t \in timers' : t.token = socks[h].token]_vars

\* C17: the run of a transport error event emits one 'error' event and leaves
\* the connected flag, the transport handle, the reconnect timer, identity and
\* roomId unchanged; the run of the close event sets connected to false and
\* emits 'disconnected'.
C17_ErrorDoesNotTransition ==
  [][/\ last'.act = "onerror"
          => /\ Len(emits') = 1
             /\ emits'[1].ev = "error"
             /\ UNCHANGED <<connected, ws, reconnectTimer, timers, clientId, user,
                            roomId>>
     /\ last'.act = "onclose"
          => /\ connected' = FALSE
             /\ Len(emits') = 1
             /\ emits'[1].ev = "disconnected"]_vars

\* C17, the case: the current handle was open and connected when its error
\* event fired; after the handler the flag is still set and the handle is still
\* the current one, with the close event yet to come
C17_ErrorOnOpenHandle ==
  /\ last.act = "onerror"
  /\ ws = last.h
  /\ connected
  /\ ~socks[ws].closeFired
  /\ clientId # Null

\* C18: the connected flag agrees with the current transport handle: when
\* connected is set there is a current handle, its open event has been observed
\* (it is not connecting) and its close event has not; and when the current
\* handle is open the flag is set.  Events of a handle that is no longer the
\* current one do not change the flag.  (Fails: the open and close handlers
\* write the flag without looking at which handle they belong to.)
C18_ConnectedAgreesWithHandle ==
  /\ connected => /\ ws # 0
                  /\ socks[ws].readyState # "CONNECTING"
                  /\ ~socks[ws].closeFired
  /\ (ws # 0 /\ socks[ws].readyState = "OPEN") => connected

\* C19: send() is atomic with respect to disconnect(): a sendMessage call either
\* transmits its message on the current, open handle or fails with 'WebSocket
\* not connected'; its transmit step never runs on an absent handle, so no call
\* fails with the TypeError of reading a property of null.  (Fails:
\* disconnect() between the readiness check and the transmit step, which the
\* await of _pack separates, leaves this.ws null for the transmit step.)
C19_SendAtomicWithDisconnect ==
  \A p \in DOMAIN promises :
    promises[p].state = "rejected" => promises[p].value # TypeError

\* the one-shot registrations connect() has on 'connection_established'
ConnectRegistrations ==
  IF "connection_established" \in DOMAIN listeners
  THEN {i \in DOMAIN listeners["connection_established"] :
          listeners["connection_established"][i].fn.k = "connectResolve"}
  ELSE {}

\* C20: one-shot registrations installed by connect() do not accumulate: after
\* one connect() by the caller and any number of failed attempts and automatic
\* reconnects, at most one of them is registered on 'connection_established'.
\* (Fails: an attempt that ends in close without a handshake leaves its
\* registration behind, and the attempt the timer starts adds another.)
C20_OneConnectRegistration == Cardinality(ConnectRegistrations) <= 1

====
